---- MODULE Spec2Model ----
(***************************************************************************)
(* A model of yagc (src/yagc.py): the staged / tracked / commit-log /      *)
(* status files kept under the yagc directory, the snapshot directories    *)
(* under yagc/commits, the working tree, and the command handlers init,    *)
(* add, remove, commit, checkout, reset, log and status.                   *)
(***************************************************************************)
EXTENDS Naturals, Sequences, FiniteSets, TLC

(***************************************************************************)
(* Bounds of the model.                                                    *)
(***************************************************************************)
\* the most commit directories the model creates
MaxCommits == 2
\* the most filenames given to one `yagc add`
MaxAddArgs == 1

(***************************************************************************)
(* Files of the working tree: a path is the sequence of its components     *)
(* relative to working_dir.  Two files share the directory d.              *)
(***************************************************************************)
Files == {<<"a.txt">>, <<"d", "b.txt">>, <<"d", "c.txt">>}

\* the contents the user gives a file: a.txt is the file that is edited
ContentsOf(f) == IF f = <<"a.txt">> THEN {"hello", "world"} ELSE {"data"}

Absent == "absent"

\* the files one run's user works with: a root file and a file in d, or two
\* files in d
Workloads == {{<<"a.txt">>, <<"d", "b.txt">>}, {<<"d", "b.txt">>, <<"d", "c.txt">>}}

\* the directories of a path: tree[:-1] joined one after the other
DirsOf(f) == {SubSeq(f, 1, n) : n \in 1..(Len(f) - 1)}

\* a directory and the files below it
Below(d) == {f \in Files : Len(f) > Len(d) /\ SubSeq(f, 1, Len(d)) = d}

(***************************************************************************)
(* Absolute paths, character by character.  The working directory is one   *)
(* whose path has no component that starts with yagc, or one that has.     *)
(***************************************************************************)
Sep == "/"

WorkingDirs == {<<Sep, "w">>, <<Sep, "y", "a", "g", "c", "-", "w">>}

\* os.path.join(working_dir, ...) for a directory of the working tree; the
\* names of the directories are one character long
RECURSIVE JoinPath(_, _)
JoinPath(wd, d) ==
    IF d = <<>> THEN wd ELSE JoinPath(wd \o <<Sep, Head(d)>>, Tail(d))

\* the `in` of two strings
Contains(s, sub) ==
    \E i \in 1..(Len(s) - Len(sub) + 1) : SubSeq(s, i, i + Len(sub) - 1) = sub

(***************************************************************************)
(* Commit hashes (hexdigests, shortened) and the references a user types.  *)
(***************************************************************************)
\* The digests of the clock readings, in the order the clock produces them.
\* The first two share the prefix a; a1 and a2 are unambiguous prefixes.
HashSeq == << <<"a", "1", "f">>, <<"a", "2", "f">>, <<"b", "1", "f">> >>

Hashes == {HashSeq[i] : i \in DOMAIN HashSeq}

NoHash == <<>>

\* the text the user of a shell saves in the editor commit has opened
MsgOf(p) == IF p = "p1" THEN "msg" ELSE "msg2"

HEADWORD == <<"H", "E", "A", "D">>

\* what the user types for <commit_hash>
Refs == {<<"a">>, <<"A">>, <<"c">>, <<"a", "1">>,
         <<"a", "1", "f">>, <<"a", "2", "f">>,
         HEADWORD, <<"h", "e", "a", "d">>}

\* str.lower() and str.upper(), character by character
LowerChar(c) ==
    CASE c = "A" -> "a" [] c = "B" -> "b" [] c = "C" -> "c" [] c = "D" -> "d"
      [] c = "E" -> "e" [] c = "F" -> "f" [] c = "H" -> "h" [] OTHER -> c

UpperChar(c) ==
    CASE c = "a" -> "A" [] c = "b" -> "B" [] c = "c" -> "C" [] c = "d" -> "D"
      [] c = "e" -> "E" [] c = "f" -> "F" [] c = "h" -> "H" [] c = "y" -> "Y"
      [] c = "n" -> "N" [] OTHER -> c

Lower(s) == [i \in 1..Len(s) |-> LowerChar(s[i])]

Upper(s) == [i \in 1..Len(s) |-> UpperChar(s[i])]

\* str.startswith
StartsWith(s, p) == Len(p) <= Len(s) /\ SubSeq(s, 1, Len(p)) = p

(***************************************************************************)
(* State.                                                                  *)
(***************************************************************************)
VARIABLES
    staged,     \* yagc/staged.json: a list of paths
    tracked,    \* yagc/tracked.json: the paths committed so far
    commits,    \* yagc/commits.json: the list of {msg, hash}
    head,       \* yagc/status.json: status['head']
    snap,       \* yagc/commits/<hash>: the snapshot directory of each hash
    wt,         \* the files of the working tree and their content
    wtDirs,     \* the directories of the working tree
    out,        \* what the last command printed or raised
    raw,        \* what the bytes of staged.json and tracked.json are
    msgFile,    \* yagc/COMMIT_MSG: whether it is there, and its text
    proc,       \* the command of each shell: where it is, what it has read
    scen,       \* how far the run has followed the spec's scenario
    workingDir  \* working_dir: the path of the directory that holds yagc

vars == <<staged, tracked, commits, head, snap, wt, wtDirs, out, raw, msgFile,
          proc, scen, workingDir>>

NoSnapshot == [exists |-> FALSE, files |-> [f \in Files |-> Absent], dirs |-> {}]

EmptySnapshot == [exists |-> TRUE, files |-> [f \in Files |-> Absent], dirs |-> {}]

Result(op, res, h) == [op |-> op, res |-> res, hash |-> h]

Last(s) == s[Len(s)]

Range(s) == {s[i] : i \in DOMAIN s}

\* The two state files commit opens with 'w': open() empties the file and the
\* document is written when the file is closed.
StateFiles == {"staged", "tracked"}

Procs == {"p1", "p2"}

NoFile == <<>>

\* chg: the mtime of the message file is no longer the start_time of line
\* 249; m: the message read at line 262
Idle == [pc |-> "idle", f |-> NoFile, st |-> <<>>, trk |-> {}, del |-> {},
         h |-> NoHash, res |-> "none", chg |-> FALSE, m |-> ""]

\* a state file that holds the JSON document of its variable, and one that
\* holds bytes that are no document
Document == [doc |-> TRUE, bytes |-> <<>>]

Bytes(b) == [doc |-> FALSE, bytes |-> b]

\* no message file in the yagc directory
NoMsgFile == [exists |-> FALSE, text |-> ""]

\* the state `yagc init` leaves in an empty working directory
Init ==
    /\ workingDir \in WorkingDirs
    /\ raw = [n \in StateFiles |-> Document]
    /\ msgFile = NoMsgFile
    /\ proc = [p \in Procs |-> Idle]
    /\ scen = 1
    /\ staged = <<>>
    /\ tracked = {}
    /\ commits = <<>>
    /\ head = TRUE
    /\ snap = [h \in Hashes |-> NoSnapshot]
    /\ wt = [f \in Files |-> Absent]
    /\ wtDirs = {}
    /\ out = Result("init", "ok", NoHash)

(***************************************************************************)
(* Helpers that follow the handlers' code.                                 *)
(***************************************************************************)
\* is_head(): status['head'] as read from status.json
IsHead == head

\* an append without the membership test
AddAlways(st, f) == Append(st, f)

\* one pass of add's loop body over the list read from staged.json
AddOne(st, f) == IF f \in Range(st) THEN st ELSE Append(st, f)

\* add's loop over its filenames; a name that is no file is skipped
RECURSIVE AddFiles(_, _, _)
AddFiles(st, args, w) ==
    IF args = <<>> THEN st
    ELSE AddFiles(IF w[Head(args)] = Absent THEN st ELSE AddOne(st, Head(args)),
                  Tail(args), w)

\* list.remove: the first occurrence goes
RECURSIVE RemoveFirst(_, _)
RemoveFirst(st, f) ==
    IF st = <<>> THEN <<>>
    ELSE IF Head(st) = f THEN Tail(st)
    ELSE <<Head(st)>> \o RemoveFirst(Tail(st), f)

\* every tracked file taken as deleted
DeletionsAll(trk, w) == trk

\* commit: the tracked files that are no longer files of the working tree
Deletions(trk, w) == {f \in trk : w[f] = Absent}

\* commit: tracked.update(staged)
TrackedUpdate(trk, st) == trk \cup Range(st)

\* The directory loop and the shutil.copy of one file into a snapshot
\* directory: os.mkdir of every directory of the path, in order, raises when
\* the directory is already there; the copy raises when the source is not.
CopyFile(s, f, content) ==
    LET there == DirsOf(f) \cap s.dirs
        made  == {d \in DirsOf(f) : \A e \in there : Len(d) < Len(e)}
    IN  IF there # {}
        THEN [ok |-> FALSE, s |-> [s EXCEPT !.dirs = @ \cup made]]
        ELSE IF content = Absent
        THEN [ok |-> FALSE, s |-> [s EXCEPT !.dirs = @ \cup made]]
        ELSE [ok |-> TRUE,
              s |-> [s EXCEPT !.dirs = @ \cup made, !.files[f] = content]]

\* commit: copy the staged files, in order, from the working tree
RECURSIVE CopyStaged(_, _, _)
CopyStaged(s, st, w) ==
    IF st = <<>> THEN [ok |-> TRUE, s |-> s]
    ELSE LET r == CopyFile(s, Head(st), w[Head(st)])
         IN  IF r.ok THEN CopyStaged(r.s, Tail(st), w) ELSE r

\* commit: copy the tracked files that are neither staged nor deleted from
\* the previous commit's directory, in the set's iteration order; an
\* exception reaches `except Error`, an undefined name, and leaves as a
\* NameError
RECURSIVE CarryForward(_, _, _)
CarryForward(s, order, prev) ==
    IF order = <<>> THEN [ok |-> TRUE, s |-> s]
    ELSE LET r == CopyFile(s, Head(order), prev.files[Head(order)])
         IN  IF r.ok THEN CarryForward(r.s, Tail(order), prev) ELSE r

\* the orders in which a set can be iterated
Orders(S) == {q \in [1..Cardinality(S) -> S] : Range(q) = S}

\* get_commit_from_hash_prefix: None when ambiguous, 'no valid commit' when
\* nothing matches, else the commit
Matches(cs, prefix) == {i \in DOMAIN cs : StartsWith(cs[i].hash, Lower(prefix))}

\* a lookup in which the first match wins
GetFirstMatch(cs, prefix) ==
    LET m == Matches(cs, prefix)
    IN  IF m = {} THEN [kind |-> "no valid commit", idx |-> 0]
        ELSE [kind |-> "commit", idx |-> CHOOSE i \in m : \A j \in m : i <= j]

GetCommitFromHashPrefix(cs, prefix) ==
    LET m == Matches(cs, prefix)
    IN  IF m = {} THEN [kind |-> "no valid commit", idx |-> 0]
        ELSE IF Cardinality(m) > 1 THEN [kind |-> "None", idx |-> 0]
        ELSE [kind |-> "commit", idx |-> CHOOSE i \in m : TRUE]

\* checkout: os.remove of every tracked file
RemoveTracked(w, trk) == [f \in Files |-> IF f \in trk THEN Absent ELSE w[f]]

\* checkout, line 498: the directories of the walk that are passed over,
\* by their absolute path
WalkSkips(path, wd) ==
    \/ path = wd
    \/ Contains(path, <<Sep, "y", "a", "g", "c">>)
    \/ Contains(path, <<Sep, "y", "a", "g", "c", Sep>>)

\* checkout: every directory of the walk that line 498 does not pass over
\* is appended to tracked_dirs (the two `continue`s only leave the inner
\* loops), and os.rmdir, bottom-up, removes the ones that are empty by then
PruneDirs(ds, w, wd) ==
    {d \in ds : \/ WalkSkips(JoinPath(wd, d), wd)
                \/ \E f \in Below(d) : w[f] # Absent}

\* a checkout that copies nothing back
RestoreNothing(w, s) == w

\* checkout: copy the commit directory over the working tree
RestoreFiles(w, s) ==
    [f \in Files |-> IF s.files[f] # Absent THEN s.files[f] ELSE w[f]]

RestoreDirs(ds, s) == ds \cup s.dirs

(***************************************************************************)
(* The user's edits of the working tree between commands.                  *)
(***************************************************************************)
\* the files the working tree or the repository holds
Known ==
    {f \in Files : \/ wt[f] # Absent
                   \/ f \in tracked \cup Range(staged)
                   \/ \E h \in Hashes : snap[h].files[f] # Absent}

WriteFile(f, c) ==
    /\ wt[f] # c
    /\ \E w \in Workloads : Known \cup {f} \subseteq w
    /\ wt' = [wt EXCEPT ![f] = c]
    /\ wtDirs' = wtDirs \cup DirsOf(f)
    /\ out' = Result("edit", "ok", NoHash)
    /\ UNCHANGED <<staged, tracked, commits, head, snap>>

DeleteFile(f) ==
    /\ wt[f] # Absent
    /\ wt' = [wt EXCEPT ![f] = Absent]
    /\ out' = Result("edit", "ok", NoHash)
    /\ UNCHANGED <<staged, tracked, commits, head, snap, wtDirs>>

(***************************************************************************)
(* The command handlers.  add, remove and reset run to completion in one   *)
(* step.  commit and checkout are split where they wait: commit for the    *)
(* message file to change and for its removal to be permitted, checkout    *)
(* for the answer to the prompt.  What the command read before the wait    *)
(* stays in proc.                                                          *)
(***************************************************************************)
\* add without its is_head() test
AddUnchecked(args) ==
    /\ staged' = AddFiles(staged, args, wt)
    /\ out' = Result("add", "ok", NoHash)
    /\ UNCHANGED <<tracked, commits, head, snap, wt, wtDirs>>

Add(args) ==
    IF ~IsHead
    THEN /\ out' = Result("add", "not head", NoHash)
         /\ UNCHANGED <<staged, tracked, commits, head, snap, wt, wtDirs>>
    ELSE /\ staged' = AddFiles(staged, args, wt)
         /\ out' = Result("add", "ok", NoHash)
         /\ UNCHANGED <<tracked, commits, head, snap, wt, wtDirs>>

Remove(f) ==
    IF ~IsHead
    THEN /\ out' = Result("remove", "not head", NoHash)
         /\ UNCHANGED <<staged, tracked, commits, head, snap, wt, wtDirs>>
    ELSE IF f \in Range(staged)
    THEN /\ staged' = RemoveFirst(staged, f)
         /\ out' = Result("remove", "ok", NoHash)
         /\ UNCHANGED <<tracked, commits, head, snap, wt, wtDirs>>
    ELSE /\ out' = Result("remove", "not staged", NoHash)
         /\ UNCHANGED <<staged, tracked, commits, head, snap, wt, wtDirs>>

\* a directory creation that accepts a directory that is already there
CommitDirReused(h) == FALSE

\* os.mkdir(commit_dir) raises FileExistsError when the digest already names
\* a commit directory
CommitDirExists(h) == snap[h].exists

\* a command of shell p that waits: what it has read is kept in proc[p]
Held(p, pc, st, trk, del, h, pr) ==
    [pr EXCEPT ![p] = [Idle EXCEPT !.pc = pc, !.st = st, !.trk = trk,
                                   !.del = del, !.h = h]]

Released(p) == [proc EXCEPT ![p] = Idle]

\* Path(msg_filename).touch(), line 239: the file is made when it is not
\* there, and keeps its text when it is
Touch(mf) == [exists |-> TRUE, text |-> IF mf.exists THEN mf.text ELSE ""]

\* The message file has a new mtime: every commit in the loop of lines
\* 250-251 finds it different from the start_time it took at line 249.
Stamped(pr) ==
    [q \in Procs |-> IF pr[q].pc = "commit wait"
                     THEN [pr[q] EXCEPT !.chg = TRUE] ELSE pr[q]]

\* commit, lines 217-249: is_head(), the reads of staged.json and
\* tracked.json, the deletions, the touch of the message file, the editor
\* started on it, and start_time.  The command then waits in the loops of
\* lines 250-251 and 266-277 with what it has read, while the other shell
\* goes on.
CommitEdit(p) ==
    /\ proc[p].pc = "idle"
    /\ IF ~IsHead
       THEN /\ out' = Result("commit", "not head", NoHash)
            /\ UNCHANGED <<proc, msgFile>>
       ELSE IF staged = <<>> /\ Deletions(tracked, wt) = {}
       THEN /\ out' = Result("commit", "no staged files", NoHash)
            /\ UNCHANGED <<proc, msgFile>>
       ELSE /\ msgFile' = Touch(msgFile)
            /\ proc' = Held(p, "commit wait", staged, tracked,
                            Deletions(tracked, wt), NoHash, Stamped(proc))
            /\ UNCHANGED out
    /\ UNCHANGED <<staged, tracked, commits, head, snap, wt, wtDirs>>

\* The user of shell p saves the message in the editor that line 245 has
\* started: the file is written, and made when it is no longer there.
EditorSaves(p) ==
    /\ proc[p].pc = "commit wait"
    /\ msgFile' = [exists |-> TRUE, text |-> MsgOf(p)]
    /\ proc' = Stamped(proc)
    /\ UNCHANGED <<staged, tracked, commits, head, snap, wt, wtDirs, out>>

\* commit, lines 250-262: the loop of lines 250-251 is left when the mtime
\* of the message file has changed, and with FileNotFoundError when the
\* file is gone; the editor is killed and the message is what the file
\* holds at line 262.  The command then waits in the loop of lines 266-277
\* with the message it has read.
CommitRead(p) ==
    /\ proc[p].pc = "commit wait"
    /\ ~msgFile.exists \/ proc[p].chg
    /\ IF ~msgFile.exists
       THEN \* os.path.getmtime(msg_filename) raises FileNotFoundError
            /\ proc' = Released(p)
            /\ out' = Result("commit", "FileNotFoundError", NoHash)
       ELSE /\ proc' = [proc EXCEPT ![p].pc = "commit remove",
                                    ![p].m = msgFile.text]
            /\ UNCHANGED out
    /\ UNCHANGED <<staged, tracked, commits, head, snap, wt, wtDirs, msgFile>>

\* commit, lines 266-277: os.remove(msg_filename) raises PermissionError;
\* the loop prints and goes to sleep
RemoveMsgDenied(p) ==
    /\ proc[p].pc = "commit remove"
    /\ msgFile.exists
    /\ proc' = [proc EXCEPT ![p].pc = "commit sleep"]
    /\ UNCHANGED <<staged, tracked, commits, head, snap, wt, wtDirs, out, raw, scen,
                   workingDir, msgFile>>

\* commit, lines 265-277: time.sleep(0.5) is over and `while True` tries
\* again; nothing counts the attempts
RetrySleep(p) ==
    /\ proc[p].pc = "commit sleep"
    /\ proc' = [proc EXCEPT ![p].pc = "commit remove"]
    /\ UNCHANGED <<staged, tracked, commits, head, snap, wt, wtDirs, out, raw, scen,
                   workingDir, msgFile>>

\* commit, lines 264-350 when os.remove does not raise PermissionError,
\* with the staged list, the tracked set and the deletions read before the
\* wait and the message read at line 262: h is the hexdigest of the time,
\* order the iteration order of the set of files carried forward.
\* os.remove raises FileNotFoundError when the message file is gone.
Commit(p, h, order) ==
    LET st        == proc[p].st
        cs        == CopyStaged(EmptySnapshot, st, wt)
        commits2  == Append(commits, [msg |-> proc[p].m, hash |-> h])
        cf        == IF Len(commits2) > 1
                     THEN CarryForward(cs.s, order, snap[Last(commits).hash])
                     ELSE cs
    IN  /\ proc[p].pc = "commit remove"
        /\ proc' = Released(p)
        /\ msgFile' = NoMsgFile
        /\ IF ~msgFile.exists
           THEN \* os.remove(msg_filename) raises FileNotFoundError
                /\ out' = Result("commit", "FileNotFoundError", NoHash)
                /\ UNCHANGED <<staged, tracked, commits, head, snap, wt, wtDirs>>
           ELSE IF CommitDirExists(h)
           THEN \* os.mkdir(commit_dir) raises FileExistsError
                /\ out' = Result("commit", "FileExistsError", NoHash)
                /\ UNCHANGED <<staged, tracked, commits, head, snap, wt, wtDirs>>
           ELSE IF ~cs.ok
           THEN \* a mkdir or a copy of the staged loop raises
                /\ staged' = <<>>
                /\ snap' = [snap EXCEPT ![h] = cs.s]
                /\ out' = Result("commit", "OSError", NoHash)
                /\ UNCHANGED <<tracked, commits, head, wt, wtDirs>>
           ELSE IF ~cf.ok
           THEN \* the carry-forward loop raises, after commits.json is
                \* written
                /\ staged' = <<>>
                /\ commits' = commits2
                /\ snap' = [snap EXCEPT ![h] = cf.s]
                /\ out' = Result("commit", "NameError", NoHash)
                /\ UNCHANGED <<tracked, head, wt, wtDirs>>
           ELSE /\ staged' = <<>>
                /\ commits' = commits2
                /\ snap' = [snap EXCEPT ![h] = cf.s]
                /\ tracked' = TrackedUpdate(proc[p].trk, st)
                /\ out' = Result("commit", "ok", NoHash)
                /\ UNCHANGED <<head, wt, wtDirs>>

\* len(args) > 0 and args[0] in ['--quiet', '-q']
Quiet(args) == Len(args) > 0 /\ args[1] \in {"--quiet", "-q"}

\* a restore that writes the opposite of what status.json holds when HEAD
\* is asked for
RestoreAlternates(trk, c, isHead) ==
    LET w1 == RemoveTracked(wt, trk)
        d1 == PruneDirs(wtDirs, w1, workingDir)
    IN  /\ wt' = RestoreFiles(w1, snap[c.hash])
        /\ wtDirs' = RestoreDirs(d1, snap[c.hash])
        /\ head' = (isHead /\ ~head)

\* what checkout does to the working tree and to status.json once it has
\* its commit, with the tracked list it read at line 463: lines 487-547
Restore(trk, c, isHead) ==
    LET w1 == RemoveTracked(wt, trk)
        d1 == PruneDirs(wtDirs, w1, workingDir)
    IN  /\ wt' = RestoreFiles(w1, snap[c.hash])
        /\ wtDirs' = RestoreDirs(d1, snap[c.hash])
        /\ head' = isHead

\* checkout, lines 487-520 when the lookup has returned None: the files
\* and the directories are removed, then commit['hash'] raises TypeError
RestoreNone(trk) ==
    LET w1 == RemoveTracked(wt, trk)
    IN  /\ wt' = w1
        /\ wtDirs' = PruneDirs(wtDirs, w1, workingDir)
        /\ UNCHANGED head

\* checkout, lines 458-480, and lines 487-549 when nothing is asked: args
\* is what follows <commit_hash> on the command line.  Without -q, and
\* with a reference other than HEAD that does not fail the lookup, the
\* command waits at the prompt of line 481 with the tracked list and the
\* commit it has read, while the other shell goes on.
Checkout(p, ref, args) ==
    LET isHead == Upper(ref) = HEADWORD
        found  == GetCommitFromHashPrefix(commits, ref)
    IN  /\ proc[p].pc = "idle"
        /\ IF isHead /\ commits = <<>>
           THEN \* commits[-1] raises IndexError
                /\ out' = Result("checkout", "IndexError", NoHash)
                /\ UNCHANGED <<staged, tracked, commits, head, snap, wt, wtDirs, proc>>
           ELSE IF isHead
           THEN /\ Restore(tracked, Last(commits), TRUE)
                /\ out' = Result("checkout", "ok", Last(commits).hash)
                /\ UNCHANGED <<staged, tracked, commits, snap, proc>>
           ELSE IF found.kind = "no valid commit"
           THEN /\ out' = Result("checkout", "not valid", NoHash)
                /\ UNCHANGED <<staged, tracked, commits, head, snap, wt, wtDirs, proc>>
           ELSE IF ~Quiet(args)
           THEN /\ proc' = Held(p, "checkout prompt", <<>>, tracked, {},
                                IF found.kind = "None" THEN NoHash
                                ELSE commits[found.idx].hash, proc)
                /\ UNCHANGED <<staged, tracked, commits, head, snap, wt, wtDirs, out>>
           ELSE IF found.kind = "None"
           THEN /\ RestoreNone(tracked)
                /\ out' = Result("checkout", "TypeError", NoHash)
                /\ UNCHANGED <<staged, tracked, commits, snap, proc>>
           ELSE /\ Restore(tracked, commits[found.idx], FALSE)
                /\ out' = Result("checkout", "ok", commits[found.idx].hash)
                /\ UNCHANGED <<staged, tracked, commits, snap, proc>>

\* checkout, lines 481-549: answer is what the user types at the prompt
CheckoutAnswer(p, answer) ==
    /\ proc[p].pc = "checkout prompt"
    /\ proc' = Released(p)
    /\ IF Upper(answer) # <<"Y">>
       THEN /\ out' = Result("checkout", "aborting", NoHash)
            /\ UNCHANGED <<staged, tracked, commits, head, snap, wt, wtDirs>>
       ELSE IF proc[p].h = NoHash
       THEN /\ RestoreNone(proc[p].trk)
            /\ out' = Result("checkout", "TypeError", NoHash)
            /\ UNCHANGED <<staged, tracked, commits, snap>>
       ELSE /\ Restore(proc[p].trk, [msg |-> "msg", hash |-> proc[p].h], FALSE)
            /\ out' = Result("checkout", "ok", proc[p].h)
            /\ UNCHANGED <<staged, tracked, commits, snap>>

\* line 576 with the name it means, commit: the warning is printed
ResetWarningPrints == FALSE

\* line 576 reads the local `commits` before line 588 assigns it
ResetWarningRaises == TRUE

Reset(ref, answer) ==
    LET found == GetCommitFromHashPrefix(commits, ref)
    IN  IF found.kind = "no valid commit"
        THEN /\ out' = Result("reset", "not valid", NoHash)
             /\ UNCHANGED <<staged, tracked, commits, head, snap, wt, wtDirs>>
        ELSE IF ResetWarningRaises
        THEN /\ out' = Result("reset", "UnboundLocalError", NoHash)
             /\ UNCHANGED <<staged, tracked, commits, head, snap, wt, wtDirs>>
        ELSE IF Upper(answer) # <<"Y">>
        THEN /\ out' = Result("reset", "aborting", NoHash)
             /\ UNCHANGED <<staged, tracked, commits, head, snap, wt, wtDirs>>
        ELSE IF found.kind = "None"
        THEN \* checkout(hash_prefix, '-q') raises TypeError
             /\ RestoreNone(tracked)
             /\ out' = Result("reset", "TypeError", NoHash)
             /\ UNCHANGED <<staged, tracked, commits, snap>>
        ELSE \* checkout, the truncation, then status[head] raises NameError
             /\ Restore(tracked, commits[found.idx], FALSE)
             /\ commits' = SubSeq(commits, 1, found.idx)
             /\ out' = Result("reset", "NameError", NoHash)
             /\ UNCHANGED <<staged, tracked, snap>>

Answers == {<<"y">>, <<"n">>}

\* what follows <commit_hash> on checkout's command line
CheckoutArgs == {<<"-q">>, <<>>}

\* the digest of the current time: the next one of the clock, or, when the
\* clock has not moved on, one that already names a commit directory
DirCount == Cardinality({h \in Hashes : snap[h].exists})

Digests == {HashSeq[i] : i \in {j \in DOMAIN HashSeq : j <= DirCount + 1}}


(***************************************************************************)
(* The commands typed in one shell, where nothing is typed while a command *)
(* waits, with scen counting the steps of the scenario of the              *)
(* specification:                                                          *)
(* a.txt written "hello", add a.txt, commit, a.txt written "world", add    *)
(* a.txt, commit, a confirmed checkout of the first commit's hash,         *)
(* checkout HEAD.  scen is 1 after init, one more after each step of the   *)
(* scenario, and 0 once the run has left it.                               *)
(***************************************************************************)
ScenFile == <<"a.txt">>

Follows(k, on) == IF on /\ scen = k THEN k + 1 ELSE 0

\* no command is waiting
NoneHeld == \A p \in Procs : proc[p].pc = "idle"

\* a command of the one shell: it is typed when no command is waiting
Alone == NoneHeld /\ UNCHANGED <<raw, msgFile, proc, workingDir>>

Next ==
    \/ \E f \in Files : \E c \in ContentsOf(f) :
          /\ WriteFile(f, c)
          /\ scen' = IF c = "hello" THEN Follows(1, f = ScenFile)
                     ELSE Follows(4, f = ScenFile /\ c = "world")
          /\ Alone
    \/ \E f \in Files : DeleteFile(f) /\ scen' = 0 /\ Alone
    \/ \E n \in 0..MaxAddArgs : \E args \in [1..n -> Files] :
          /\ Add(args)
          /\ scen' = IF scen = 2 THEN Follows(2, args = <<ScenFile>>)
                     ELSE Follows(5, args = <<ScenFile>>)
          /\ Alone
    \/ \E f \in Files : Remove(f) /\ scen' = 0 /\ Alone
    \/ /\ CommitEdit("p1")
       /\ scen' = IF proc' # proc /\ scen \in {3, 6} THEN scen ELSE 0
       /\ UNCHANGED <<raw, workingDir>>
    \/ EditorSaves("p1") /\ UNCHANGED <<raw, scen, workingDir>>
    \/ CommitRead("p1") /\ UNCHANGED <<raw, scen, workingDir>>
    \/ RemoveMsgDenied("p1")
    \/ RetrySleep("p1")
    \/ \E h \in Digests :
          \E order \in Orders((proc["p1"].trk \ Range(proc["p1"].st)) \ proc["p1"].del) :
             /\ snap[h].exists \/ DirCount < MaxCommits
             /\ Commit("p1", h, order)
             /\ scen' = IF scen = 3 THEN Follows(3, ~snap[h].exists)
                        ELSE Follows(6, ~snap[h].exists)
             /\ UNCHANGED <<raw, workingDir>>
    \/ \E ref \in Refs, args \in CheckoutArgs :
          /\ Checkout("p1", ref, args)
          /\ scen' = IF proc' # proc
                     THEN (IF scen = 7 /\ ref = commits[1].hash THEN scen ELSE 0)
                     ELSE IF scen = 7
                     THEN Follows(7, ref = commits[1].hash /\ Quiet(args))
                     ELSE Follows(8, ref = HEADWORD)
          /\ UNCHANGED <<raw, msgFile, workingDir>>
    \/ \E answer \in Answers :
          /\ CheckoutAnswer("p1", answer)
          /\ scen' = Follows(7, answer = <<"y">>)
          /\ UNCHANGED <<raw, msgFile, workingDir>>
    \/ \E ref \in Refs, answer \in Answers : Reset(ref, answer) /\ scen' = 0 /\ Alone

Spec == Init /\ [][Next]_vars

(***************************************************************************)
(* Commands run as processes of two shells on one repository.  A step is   *)
(* what a command does between two accesses to a state file that another   *)
(* process can see: the read, the write and the truncation of add's        *)
(* read-modify-write, the open and the close of the files commit opens     *)
(* with 'w', and the read and the removal of the message file.  Each       *)
(* process runs one command, and p2 may run status after it; p1 is the     *)
(* only one to commit.                                                     *)
(***************************************************************************)
Done(p, res) == [proc EXCEPT ![p].pc = "done", ![p].res = res]

(***************************************************************************)
(* The bytes of staged.json.  json.dump writes a list of absolute paths as *)
(* [, the paths between double quotes and separated by a comma and a       *)
(* space, and ].  A path is spelt byte by byte, so that the lengths are    *)
(* the ones write(2) and ftruncate(2) are called with.                     *)
(***************************************************************************)
Quote == "\""

\* the bytes of a component of a path
Chars(name) ==
    CASE name = "a.txt" -> <<"a", ".", "t", "x", "t">>
      [] name = "b.txt" -> <<"b", ".", "t", "x", "t">>
      [] name = "c.txt" -> <<"c", ".", "t", "x", "t">>
      [] OTHER -> <<name>>

\* os.path.normpath(filename) below a directory, with its separators
RECURSIVE Spell(_)
Spell(f) == IF f = <<>> THEN <<>> ELSE <<Sep>> \o Chars(Head(f)) \o Spell(Tail(f))

\* os.path.join(working_dir, os.path.normpath(filename)), line 142
AbsPath(wd, f) == wd \o Spell(f)

RECURSIVE Items(_, _)
Items(wd, st) ==
    IF st = <<>> THEN <<>>
    ELSE IF Len(st) = 1 THEN <<Quote>> \o AbsPath(wd, Head(st)) \o <<Quote>>
    ELSE <<Quote>> \o AbsPath(wd, Head(st)) \o <<Quote, ",", " ">>
            \o Items(wd, Tail(st))

\* json.dump of a list of paths
Encode(wd, st) == <<"[">> \o Items(wd, st) \o <<"]">>

\* the lists of paths a document of staged.json can hold
Lists ==
    {q \in UNION {[1..n -> Files] : n \in 0..Cardinality(Files)} :
        \A i, j \in DOMAIN q : i # j => q[i] # q[j]}

\* json.load: the bytes are a document or raise JSONDecodeError
Parses(wd, b) == \E st \in Lists : Encode(wd, st) = b

Parse(wd, b) == CHOOSE st \in Lists : Encode(wd, st) = b

\* write(2) of b at offset 0 of a file that holds old
Overlay(b, old) ==
    IF Len(old) <= Len(b) THEN b ELSE b \o SubSeq(old, Len(b) + 1, Len(old))

\* ftruncate(2) to n bytes of a file that holds old: the file is cut, or
\* extended with NUL bytes
Truncate(old, n) ==
    IF Len(old) >= n THEN SubSeq(old, 1, n)
    ELSE old \o [i \in 1..(n - Len(old)) |-> "NUL"]

\* what staged.json holds
StagedBytes ==
    IF raw["staged"].doc THEN Encode(workingDir, staged) ELSE raw["staged"].bytes

\* staged.json holds b from now on: staged is the list read from it, and
\* stays the last list read when b is no document
StagedHolds(b) ==
    IF Parses(workingDir, b)
    THEN /\ staged' = Parse(workingDir, b)
         /\ raw' = [raw EXCEPT !["staged"] = Document]
    ELSE /\ raw' = [raw EXCEPT !["staged"] = Bytes(b)]
         /\ UNCHANGED staged

\* add, lines 137-151: is_head() and os.path.isfile
AddStart(p, f) ==
    /\ proc[p].pc = "idle"
    /\ proc' = IF ~IsHead THEN Done(p, "not head")
               ELSE IF wt[f] = Absent THEN Done(p, "no file")
               ELSE [proc EXCEPT ![p].pc = "add read", ![p].f = f]
    /\ UNCHANGED <<staged, tracked, commits, head, snap, wt, wtDirs, out, raw, scen,
                   workingDir, msgFile>>

\* add, lines 153-154: open 'r+' and json.load
AddRead(p) ==
    /\ proc[p].pc = "add read"
    /\ proc' = IF ~raw["staged"].doc THEN Done(p, "JSONDecodeError")
               ELSE [proc EXCEPT ![p].pc = "add write", ![p].st = staged]
    /\ UNCHANGED <<staged, tracked, commits, head, snap, wt, wtDirs, out, raw, scen,
                   workingDir, msgFile>>

\* add, lines 156-164 up to the write(2) that truncate() starts with: the
\* list read, with the file appended, is written over the first bytes of
\* whatever the file holds by now
AddWrite(p) ==
    /\ proc[p].pc = "add write"
    /\ IF proc[p].f \in Range(proc[p].st)
       THEN /\ proc' = Done(p, "already staged")
            /\ UNCHANGED <<staged, raw>>
       ELSE /\ StagedHolds(Overlay(Encode(workingDir, AddOne(proc[p].st, proc[p].f)),
                                   StagedBytes))
            /\ proc' = [proc EXCEPT ![p].pc = "add truncate"]
    /\ UNCHANGED <<tracked, commits, head, snap, wt, wtDirs, out, scen, workingDir,
                   msgFile>>

\* add, line 164: ftruncate(2) at the end of what this add has written
AddTruncate(p) ==
    /\ proc[p].pc = "add truncate"
    /\ StagedHolds(Truncate(StagedBytes,
                            Len(Encode(workingDir, AddOne(proc[p].st, proc[p].f)))))
    /\ proc' = Done(p, "ok")
    /\ UNCHANGED <<tracked, commits, head, snap, wt, wtDirs, out, scen, workingDir,
                   msgFile>>

\* status, lines 389-414: staged.json and status.json are read; the
\* command is the first of its shell or follows the one that has finished
Status(p) ==
    /\ proc[p].pc \in {"idle", "done"}
    /\ proc' = IF ~raw["staged"].doc THEN Done(p, "JSONDecodeError")
               ELSE [Done(p, "ok") EXCEPT ![p].st = staged]
    /\ UNCHANGED <<staged, tracked, commits, head, snap, wt, wtDirs, out, raw, scen,
                   workingDir, msgFile>>

\* commit, lines 218-249: the reads, the message file and the editor
CommitStart(p) ==
    /\ proc[p].pc = "idle"
    /\ IF ~IsHead
       THEN proc' = Done(p, "not head") /\ UNCHANGED msgFile
       ELSE IF ~raw["staged"].doc \/ ~raw["tracked"].doc
       THEN proc' = Done(p, "JSONDecodeError") /\ UNCHANGED msgFile
       ELSE IF staged = <<>> /\ Deletions(tracked, wt) = {}
       THEN proc' = Done(p, "no staged files") /\ UNCHANGED msgFile
       ELSE /\ msgFile' = Touch(msgFile)
            /\ proc' = [Stamped(proc) EXCEPT
                           ![p].pc = "commit wait", ![p].st = staged,
                           ![p].trk = tracked,
                           ![p].del = Deletions(tracked, wt)]
    /\ UNCHANGED <<staged, tracked, commits, head, snap, wt, wtDirs, out, raw, scen,
                   workingDir>>

\* commit, lines 250-262: the message file has changed; the editor is
\* killed and the message is read
CommitMsgRead(p) ==
    /\ proc[p].pc = "commit wait"
    /\ ~msgFile.exists \/ proc[p].chg
    /\ proc' = IF ~msgFile.exists THEN Done(p, "FileNotFoundError")
               ELSE [proc EXCEPT ![p].pc = "commit remove", ![p].m = msgFile.text]
    /\ UNCHANGED <<staged, tracked, commits, head, snap, wt, wtDirs, out, raw, scen,
                   workingDir, msgFile>>

\* commit, lines 269 and 278-280: os.remove succeeds and the loop is left;
\* it raises FileNotFoundError when the file is gone
RemoveMsgDone(p) ==
    /\ proc[p].pc = "commit remove"
    /\ proc' = IF ~msgFile.exists THEN Done(p, "FileNotFoundError")
               ELSE [proc EXCEPT ![p].pc = "commit digest"]
    /\ msgFile' = NoMsgFile
    /\ UNCHANGED <<staged, tracked, commits, head, snap, wt, wtDirs, out, raw, scen,
                   workingDir>>

\* commit, lines 282-297: the digest, the commit directory, and
\* open(staged_filename, 'w'), which empties the file
CommitOpenStaged(p, h) ==
    /\ proc[p].pc = "commit digest"
    /\ IF CommitDirExists(h)
       THEN /\ proc' = Done(p, "FileExistsError")
            /\ UNCHANGED <<staged, snap, raw>>
       ELSE /\ snap' = [snap EXCEPT ![h] = EmptySnapshot]
            /\ StagedHolds(<<>>)
            /\ proc' = [proc EXCEPT ![p].pc = "commit wipe", ![p].h = h]
    /\ UNCHANGED <<tracked, commits, head, wt, wtDirs, out, scen, workingDir,
                   msgFile>>

\* json.dump([], staged_file), line 298
WipeValue == <<>>

\* commit, lines 298-347: staged.json is closed, which writes the bytes of
\* [] at the start of the file, over what an add has written since the
\* open; the staged files are copied, the commit is appended, the tracked
\* files are carried forward, and open(tracked_filename, 'w') empties
\* tracked.json
CommitWipe(p, order) ==
    LET h        == proc[p].h
        cs       == CopyStaged(snap[h], proc[p].st, wt)
        commits2 == Append(commits, [msg |-> proc[p].m, hash |-> h])
        cf       == IF Len(commits2) > 1
                    THEN CarryForward(cs.s, order, snap[Last(commits).hash])
                    ELSE cs
        wiped    == Overlay(Encode(workingDir, WipeValue), StagedBytes)
        rawS     == IF Parses(workingDir, wiped) THEN Document ELSE Bytes(wiped)
    IN  /\ proc[p].pc = "commit wipe"
        /\ staged' = IF Parses(workingDir, wiped) THEN Parse(workingDir, wiped)
                     ELSE staged
        /\ IF ~cs.ok
           THEN /\ snap' = [snap EXCEPT ![h] = cs.s]
                /\ raw' = [raw EXCEPT !["staged"] = rawS]
                /\ proc' = Done(p, "OSError")
                /\ UNCHANGED commits
           ELSE IF ~cf.ok
           THEN /\ snap' = [snap EXCEPT ![h] = cf.s]
                /\ raw' = [raw EXCEPT !["staged"] = rawS]
                /\ commits' = commits2
                /\ proc' = Done(p, "NameError")
           ELSE /\ snap' = [snap EXCEPT ![h] = cf.s]
                /\ raw' = [raw EXCEPT !["staged"] = rawS, !["tracked"] = Bytes(<<>>)]
                /\ commits' = commits2
                /\ proc' = [proc EXCEPT ![p].pc = "commit tracked"]
        /\ UNCHANGED <<tracked, head, wt, wtDirs, out, scen, workingDir, msgFile>>

\* commit, lines 348-350: tracked.json is written and closed
CommitTracked(p) ==
    /\ proc[p].pc = "commit tracked"
    /\ tracked' = TrackedUpdate(proc[p].trk, proc[p].st)
    /\ raw' = [raw EXCEPT !["tracked"] = Document]
    /\ proc' = Done(p, "ok")
    /\ UNCHANGED <<staged, commits, head, snap, wt, wtDirs, out, scen, workingDir,
                   msgFile>>

\* the repository before the two shells start: the files of a workload are
\* in the working tree, some are staged, and the first may be committed
FirstCommit(f) == [EmptySnapshot EXCEPT !.files[f] = "data", !.dirs = DirsOf(f)]

InitConc ==
    \E w \in Workloads, f0 \in {<<"d", "b.txt">>}, c0 \in BOOLEAN :
       /\ wt = [f \in Files |-> IF f \notin w THEN Absent
                                 ELSE IF f = <<"a.txt">> THEN "hello" ELSE "data"]
       /\ wtDirs = UNION {DirsOf(f) : f \in w}
       /\ staged \in {q \in UNION {[1..n -> w] : n \in 0..2} :
                         \A i, j \in DOMAIN q : i # j => q[i] # q[j]}
       /\ tracked = IF c0 THEN {f0} ELSE {}
       /\ commits = IF c0 THEN <<[msg |-> "msg", hash |-> HashSeq[1]]>> ELSE <<>>
       /\ snap = [h \in Hashes |-> IF c0 /\ h = HashSeq[1] THEN FirstCommit(f0)
                                    ELSE NoSnapshot]
       /\ head = TRUE
       /\ out = Result("add", "ok", NoHash)
       /\ raw = [n \in StateFiles |-> Document]
       /\ msgFile = NoMsgFile
       /\ proc = [p \in Procs |-> Idle]
       /\ scen = 1
       /\ workingDir \in WorkingDirs

NextConc ==
    \/ \E p \in Procs, f \in Files : AddStart(p, f)
    \/ \E p \in Procs : AddRead(p)
    \/ \E p \in Procs : AddWrite(p)
    \/ \E p \in Procs : AddTruncate(p)
    \/ Status("p2")
    \/ CommitStart("p1")
    \/ EditorSaves("p1") /\ UNCHANGED <<raw, scen, workingDir>>
    \/ CommitMsgRead("p1")
    \/ RemoveMsgDenied("p1")
    \/ RetrySleep("p1")
    \/ RemoveMsgDone("p1")
    \/ \E h \in Digests : CommitOpenStaged("p1", h)
    \/ \E order \in Orders((proc["p1"].trk \ Range(proc["p1"].st)) \ proc["p1"].del) :
          CommitWipe("p1", order)
    \/ CommitTracked("p1")

SpecConc == InitConc /\ [][NextConc]_vars

\* The same processes, with the committing process never left waiting for
\* the processor inside its loop on the message file: whenever it can try
\* the removal or wake up from its sleep, it does.  Whether a removal is
\* denied is the storage's choice and gets no fairness.
RetryStep(p) == RemoveMsgDenied(p) \/ RemoveMsgDone(p) \/ RetrySleep(p)

SpecRetry == InitConc /\ [][NextConc]_vars /\ WF_vars(RetryStep("p1"))


(***************************************************************************)
(* add and commit typed in two shells on one repository.  A commit that    *)
(* waits, for its message or for the removal of the message file, leaves   *)
(* the other shell free to run commands, to completion or up to their own  *)
(* wait.  Shell p1 commits; shell p2 stages, and commits while the commit  *)
(* of p1 waits.  Both commits use the one message file; each user saves a  *)
(* text of their own.  The files are not edited meanwhile, and HEAD stays  *)
(* checked out.                                                            *)
(***************************************************************************)
Apart == UNCHANGED <<raw, msgFile, proc, scen, workingDir>>

NextShells ==
    \/ \E n \in 0..MaxAddArgs : \E args \in [1..n -> Files] : Add(args) /\ Apart
    \/ CommitEdit("p1") /\ UNCHANGED <<raw, scen, workingDir>>
    \/ /\ proc["p1"].pc # "idle"
       /\ CommitEdit("p2")
       /\ UNCHANGED <<raw, scen, workingDir>>
    \/ \E p \in Procs : EditorSaves(p) /\ UNCHANGED <<raw, scen, workingDir>>
    \/ \E p \in Procs : CommitRead(p) /\ UNCHANGED <<raw, scen, workingDir>>
    \/ \E p \in Procs : RemoveMsgDenied(p)
    \/ \E p \in Procs : RetrySleep(p)
    \/ \E p \in Procs, h \in Digests :
          \E order \in Orders((proc[p].trk \ Range(proc[p].st)) \ proc[p].del) :
             /\ snap[h].exists \/ DirCount < MaxCommits
             /\ Commit(p, h, order)
             /\ UNCHANGED <<raw, scen, workingDir>>

\* the two shells start on a repository without a commit, with a.txt and
\* d/b.txt in the working tree and nothing staged
InitShells ==
    /\ InitConc
    /\ commits = <<>>
    /\ staged = <<>>
    /\ wt[<<"a.txt">>] # Absent

SpecShells == InitShells /\ [][NextShells]_vars


(***************************************************************************)
(* The commands from a repository with a history: a.txt was committed,     *)
(* then deleted, and the deletion was committed, so that a.txt is tracked  *)
(* and the last snapshot does not hold it.  One more commit directory can  *)
(* be made from there.                                                     *)
(***************************************************************************)
\* the most commit directories of a run that starts with this history
MaxCarryCommits == 3

InitCarry ==
    /\ workingDir \in WorkingDirs
    /\ raw = [n \in StateFiles |-> Document]
    /\ msgFile = NoMsgFile
    /\ proc = [p \in Procs |-> Idle]
    /\ scen = 0
    /\ staged = <<>>
    /\ tracked = {<<"a.txt">>}
    /\ commits = << [msg |-> "msg", hash |-> HashSeq[1]],
                    [msg |-> "msg", hash |-> HashSeq[2]] >>
    /\ head = TRUE
    /\ snap = [h \in Hashes |->
                 IF h = HashSeq[1]
                 THEN [EmptySnapshot EXCEPT !.files[<<"a.txt">>] = "hello"]
                 ELSE IF h = HashSeq[2] THEN EmptySnapshot ELSE NoSnapshot]
    /\ wt = [f \in Files |-> Absent]
    /\ wtDirs = {}
    /\ out = Result("commit", "ok", NoHash)

Aside == NoneHeld /\ UNCHANGED <<raw, msgFile, proc, scen, workingDir>>

NextCarry ==
    \/ \E f \in Files : \E c \in ContentsOf(f) : WriteFile(f, c) /\ Aside
    \/ \E f \in Files : DeleteFile(f) /\ Aside
    \/ \E n \in 0..MaxAddArgs : \E args \in [1..n -> Files] : Add(args) /\ Aside
    \/ \E f \in Files : Remove(f) /\ Aside
    \/ CommitEdit("p1") /\ UNCHANGED <<raw, scen, workingDir>>
    \/ EditorSaves("p1") /\ UNCHANGED <<raw, scen, workingDir>>
    \/ CommitRead("p1") /\ UNCHANGED <<raw, scen, workingDir>>
    \/ RemoveMsgDenied("p1")
    \/ RetrySleep("p1")
    \/ \E h \in Digests :
          \E order \in Orders((proc["p1"].trk \ Range(proc["p1"].st)) \ proc["p1"].del) :
             /\ snap[h].exists \/ DirCount < MaxCarryCommits
             /\ Commit("p1", h, order)
             /\ UNCHANGED <<raw, scen, workingDir>>
    \/ \E ref \in Refs, args \in CheckoutArgs :
          Checkout("p1", ref, args) /\ UNCHANGED <<raw, msgFile, scen, workingDir>>
    \/ \E answer \in Answers :
          CheckoutAnswer("p1", answer) /\ UNCHANGED <<raw, msgFile, scen, workingDir>>
    \/ \E ref \in Refs, answer \in Answers : Reset(ref, answer) /\ Aside

SpecCarry == InitCarry /\ [][NextCarry]_vars


(***************************************************************************)
(* The claims.                                                             *)
(***************************************************************************)
Repo == <<staged, tracked, commits, head, snap>>

Tree == <<wt, wtDirs>>

\* the command that waited in shell p goes on to its end in this step
Ends(p, pc) == proc[p].pc = pc /\ proc'[p].pc = "idle"

\* a command of the kind op comes to its end in this step
Completes(op) ==
    /\ out'.op = op
    /\ \/ proc' = proc /\ msgFile' = msgFile
       \/ \E p \in Procs : proc[p].pc # "idle" /\ proc'[p].pc = "idle"

\* C1: a confirmed reset(h) in HEAD mode, h resolving to a commit that is
\* not the last one, completes, leaves the log as its entries up to h, and
\* leaves HeadState true.
C1_ResetTruncates ==
    [][\A ref \in Refs :
         LET found == GetCommitFromHashPrefix(commits, ref)
         IN  (/\ IsHead
              /\ found.kind = "commit"
              /\ found.idx < Len(commits)
              /\ Reset(ref, <<"y">>))
             => (/\ out'.res = "ok"
                 /\ commits' = SubSeq(commits, 1, found.idx)
                 /\ head')]_vars

\* C2: after every successful checkout of a commit c, HeadState is true
\* exactly when c is the last entry of the log, however c was named.
C2_HeadIffLatest ==
    (out.op = "checkout" /\ out.res = "ok")
        => (head <=> out.hash = Last(commits).hash)

\* C3: with HeadState false, add, remove and commit are rejected and change
\* neither the repository's files nor the working tree.
C3_DetachedRejects ==
    [][(~head /\ \/ \E n \in 0..MaxAddArgs : \E args \in [1..n -> Files] : Add(args)
                 \/ \E f \in Files : Remove(f)
                 \/ \E p \in Procs : CommitEdit(p))
          => (out'.res = "not head" /\ UNCHANGED <<Repo, Tree>>)]_vars

C3_Witness ==
    /\ ~head
    /\ staged # <<>>
    /\ out = Result("commit", "not head", NoHash)

\* C4: a checkout of a bad reference (no match, or more than one) changes
\* nothing: no file is deleted, no directory pruned, HeadState as it was.
C4_BadRefNoChange ==
    [][/\ \A ref \in Refs, args \in CheckoutArgs :
            (/\ Upper(ref) # HEADWORD
             /\ GetCommitFromHashPrefix(commits, ref).kind # "commit"
             /\ Checkout("p1", ref, args))
            => UNCHANGED <<Repo, Tree>>
       /\ \A answer \in Answers :
            (proc["p1"].h = NoHash /\ CheckoutAnswer("p1", answer))
            => UNCHANGED <<Repo, Tree>>]_vars

\* C5: a commit of staged files that all exist succeeds and stores each at
\* its path with its content, and a checkout of a commit leaves every file
\* of its snapshot in the working tree with that content.
C5_RoundTrip ==
    [][/\ \A p \in Procs :
            (/\ Ends(p, "commit remove")
             /\ proc[p].st # <<>>
             /\ \A f \in Range(proc[p].st) : wt[f] # Absent
             /\ out'.res # "FileExistsError")
            => (/\ out'.res = "ok"
                /\ commits' # commits
                /\ \A f \in Range(proc[p].st) :
                      snap'[Last(commits').hash].files[f] = wt[f])
       /\ (Completes("checkout") /\ out'.res = "ok")
          => \A f \in Files :
                snap[out'.hash].files[f] # Absent
                   => wt'[f] = snap[out'.hash].files[f]]_vars

\* C8: every commit appended after the first holds every tracked file that
\* is neither staged nor deleted, with the content the preceding commit's
\* snapshot has for it.
C8_CarryForwardComplete ==
    [][\A p \in Procs :
         (Ends(p, "commit remove") /\ commits' # commits /\ commits # <<>>)
          => \A f \in (proc[p].trk \ Range(proc[p].st)) \ proc[p].del :
                /\ snap'[Last(commits').hash].files[f] # Absent
                /\ snap'[Last(commits').hash].files[f]
                      = snap[Last(commits).hash].files[f]]_vars

\* C9: reset with HeadState false restores nothing, does not truncate the
\* log and leaves HeadState false, whatever the reference.
C9_DetachedResetRejected ==
    [][(~head /\ out'.op = "reset")
          => (out'.res # "ok" /\ UNCHANGED <<Repo, Tree>>)]_vars

C9_Witness ==
    /\ ~head
    /\ Len(commits) > 1
    /\ out = Result("reset", "UnboundLocalError", NoHash)

\* C6: two adds of two different existing files, run concurrently in HEAD
\* mode, leave both files staged once both have finished: staged.json is a
\* document that lists both.
C6_NoLostAdd ==
    (/\ \A p \in Procs : proc[p].pc = "done" /\ proc[p].res = "ok"
     /\ proc["p1"].f # NoFile /\ proc["p2"].f # NoFile
     /\ proc["p1"].f # proc["p2"].f)
        => (/\ raw["staged"].doc
            /\ {proc["p1"].f, proc["p2"].f} \subseteq Range(staged))

\* C7: a state file is never empty or partly written when another process
\* reads it: no read of a command meets a document that does not parse.
C7_AtomicUpdates == \A p \in Procs : proc[p].res # "JSONDecodeError"

\* C10: in the scenario, the checkout of the first commit leaves a.txt with
\* its first content and HeadState false, and the checkout of HEAD that
\* follows leaves it with its second content and HeadState true.
C10_Scenario ==
    /\ scen = 8 => (wt[ScenFile] = "hello" /\ ~head)
    /\ scen = 9 => (wt[ScenFile] = "world" /\ head)

C10_Witness == scen = 9 /\ out.op = "checkout" /\ Len(commits) = 2

\* C11: commit in HEAD mode with nothing staged and every tracked file still
\* in the working tree reports that there is nothing to commit, creates no
\* snapshot directory and changes neither the log, the staged list, the
\* tracked set nor HeadState.
C11_NothingToCommit ==
    [][(/\ head
        /\ staged = <<>>
        /\ \A f \in tracked : wt[f] # Absent
        /\ \E p \in Procs : CommitEdit(p))
          => (/\ out'.res = "no staged files"
              /\ UNCHANGED <<Repo, Tree, proc>>)]_vars

C11_Witness ==
    /\ head
    /\ tracked # {}
    /\ commits # <<>>
    /\ staged = <<>>
    /\ out = Result("commit", "no staged files", NoHash)

\* C12: after every commit that completes successfully, the tracked set is
\* the tracked set of before united with the staged list the commit read,
\* so it has lost no member, and the staged list is empty.
C12_TrackedGrows ==
    [][\A p \in Procs :
         (Ends(p, "commit remove") /\ out'.res = "ok")
          => (/\ tracked' = tracked \cup Range(proc[p].st)
              /\ tracked \subseteq tracked'
              /\ staged' = <<>>)]_vars

\* C13: when exactly two logged commits have hashes that start with a
\* prefix, taken without regard to its case, resolving the prefix gives the
\* ambiguous outcome, neither a commit nor 'no valid commit'; resolving the
\* full hash of a logged commit gives that commit; and a prefix resolves as
\* its upper-case form does.
SharePrefix(p) ==
    {i \in DOMAIN commits :
        /\ Len(p) <= Len(commits[i].hash)
        /\ \A k \in 1..Len(p) : commits[i].hash[k] = LowerChar(p[k])}

C13_PrefixResolution ==
    /\ \A p \in Refs :
          Cardinality(SharePrefix(p)) = 2
             => GetCommitFromHashPrefix(commits, p).kind = "None"
    /\ (\E p \in Refs : Cardinality(SharePrefix(p)) = 2)
          => \A i \in DOMAIN commits :
                GetCommitFromHashPrefix(commits, commits[i].hash)
                   = [kind |-> "commit", idx |-> i]
    /\ \A p \in Refs :
          GetCommitFromHashPrefix(commits, Upper(p))
             = GetCommitFromHashPrefix(commits, p)

C13_Witness ==
    /\ Cardinality(SharePrefix(<<"A">>)) = 2
    /\ out = Result("checkout", "TypeError", NoHash)

\* C14: with a non-empty log, a checkout of HEAD that follows a completed
\* checkout of HEAD directly leaves every file of the working tree, its
\* directories and HeadState as the first left them.
C14_CheckoutHeadTwice ==
    [][\A ref \in Refs, args \in CheckoutArgs :
         (/\ commits # <<>>
          /\ out.op = "checkout" /\ out.res = "ok"
          /\ out.hash = Last(commits).hash
          /\ head
          /\ Upper(ref) = HEADWORD
          /\ Checkout("p1", ref, args))
         => (/\ out'.res = "ok"
             /\ UNCHANGED <<wt, wtDirs, head>>)]_vars

C14_Witness ==
    /\ Len(commits) = 2
    /\ out = Result("checkout", "ok", Last(commits).hash)
    /\ head
    /\ \E f \in Files : f \in tracked /\ wt[f] # Absent
    /\ \E f \in Files : f \notin tracked /\ wt[f] # Absent

\* C15: no two entries of the log have the same hash, and a commit whose
\* digest is the hash of a logged commit fails and appends nothing; the
\* commit has a digest once it has read its message from the message file.
C15_UniqueHashes ==
    [][/\ \A i, j \in DOMAIN commits' :
             i # j => commits'[i].hash # commits'[j].hash
       /\ \A p \in Procs, h \in Hashes :
             \A order \in Orders((proc[p].trk \ Range(proc[p].st)) \ proc[p].del) :
                (/\ \E i \in DOMAIN commits : commits[i].hash = h
                 /\ msgFile.exists
                 /\ Commit(p, h, order))
                => (/\ out'.res = "FileExistsError"
                    /\ commits' = commits)]_vars

C15_Witness ==
    /\ Len(commits) = 2
    /\ staged # <<>>
    /\ out = Result("commit", "FileExistsError", NoHash)

\* C16: the staged list never holds a path twice; an add puts into it only
\* files that exist in the working tree at that moment, once each, after
\* the entries it already has, and changes nothing for a path that is no
\* file or is already staged.
C16_StagedWellFormed ==
    [][/\ \A i, j \in DOMAIN staged' : i # j => staged'[i] # staged'[j]
       /\ out'.op = "add"
             => (/\ \A f \in Range(staged') \ Range(staged) : wt[f] # Absent
                 /\ Len(staged') >= Len(staged)
                 /\ SubSeq(staged', 1, Len(staged)) = staged)]_vars

C16_Witness ==
    /\ out = Result("add", "ok", NoHash)
    /\ Len(staged) = 2
    /\ \E f \in Range(staged) : wt[f] = Absent

\* C17: a commit in which a copy fails (a staged file, a directory of its
\* path, or a carried-forward file) leaves the log as it was.
C17_FailedCopyKeepsLog ==
    [][(Completes("commit") /\ out'.res \in {"OSError", "NameError"})
          => commits' = commits]_vars

\* C18: a commit whose carry-forward meets a tracked file, neither staged
\* nor deleted, that the preceding commit's snapshot does not hold, skips
\* that file and completes: it reports the hash, the log has the new commit
\* and the tracked set has gained the staged paths.
C18_MissingSourceSkipped ==
    [][\A p \in Procs :
         (/\ Ends(p, "commit remove")
          /\ commits # <<>>
          /\ proc[p].st # <<>>
          /\ \A f \in Range(proc[p].st) : wt[f] # Absent
          /\ \E f \in (proc[p].trk \ Range(proc[p].st)) \ proc[p].del :
                snap[Last(commits).hash].files[f] = Absent
          /\ \A f, g \in Range(proc[p].st) \cup proc[p].trk :
                f # g => DirsOf(f) \cap DirsOf(g) = {}
          /\ out'.res # "FileExistsError")
          => (/\ out'.res = "ok"
              /\ Len(commits') = Len(commits) + 1
              /\ tracked' = tracked \cup Range(proc[p].st))]_vars

\* C19: after a successful checkout of a commit, every path that some
\* logged commit's snapshot holds is in the working tree exactly when the
\* snapshot of the commit checked out holds it, and with that content; a
\* file that is neither tracked nor versioned is as it was; and a directory
\* that is gone held no untracked file.
Versioned ==
    {f \in Files : \E i \in DOMAIN commits : snap[commits[i].hash].files[f] # Absent}

C19_TreeMatchesSnapshot ==
    [][(Completes("checkout") /\ out'.res = "ok")
          => (/\ \A f \in Versioned : wt'[f] = snap[out'.hash].files[f]
              /\ \A f \in Files \ (Versioned \cup tracked) : wt'[f] = wt[f]
              /\ \A d \in wtDirs \ wtDirs' :
                    \A f \in Below(d) : wt[f] # Absent => f \in tracked)]_vars

\* C20: a file leaves the staged list only when a remove unstages it or
\* when a commit has copied it into the snapshot of a commit that the step
\* appends to the log; also when the file was added by another process
\* while the commit waited for its message, and when the commit aborts.
C20_StagedUntilCommitted ==
    [][\A f \in Files :
         (f \in Range(staged) /\ f \notin Range(staged'))
            => \/ out'.op = "remove" /\ out' # out
               \/ /\ Len(commits') = Len(commits) + 1
                  /\ snap'[Last(commits').hash].files[f] # Absent]_vars

\* C21: every file that the snapshot of a logged commit holds is a tracked
\* file, also after a commit that aborted part-way.
C21_SnapshotFilesTracked ==
    \A i \in DOMAIN commits :
       \A f \in Files :
          snap[commits[i].hash].files[f] # Absent => f \in tracked

\* C22: the loop that retries the removal of the commit-message file is
\* bounded: a commit that has begun to remove the file leaves the loop,
\* with the file removed or with an error, however long the storage goes on
\* denying the removal.
C22_RetryBounded ==
    (proc["p1"].pc = "commit remove")
        ~> (proc["p1"].pc \notin {"commit remove", "commit sleep"})

====
